---- MODULE Spec2Model ----
(***************************************************************************)
(* Model of the YouTube livestream schedulers.                             *)
(*                                                                         *)
(*   YouTubeScheduler_ChatGPT_Version.py  the primary scheduler: schedule  *)
(*       calculation, broadcast inspection, update-or-insert, stream bind, *)
(*       thumbnail copy.                                                   *)
(*   schedule_livestream.py               the standalone script with the   *)
(*       persisted reusable stream id.                                     *)
(*                                                                         *)
(* Time is counted in minutes since 2025-01-01T00:00 (a Wednesday), strings*)
(* are sequences of one-character strings, and the YouTube service is the  *)
(* environment: every call to it either succeeds, raises HttpError or      *)
(* raises some other exception (transport error, token refresh error).     *)
(***************************************************************************)
EXTENDS Integers, Sequences, FiniteSets, TLC

VARIABLES
    \* ---- the environment
    now,                    \* the wall clock: [utc |-> minutes, second |-> 0..59]
    store,                  \* the service's broadcasts; a broadcast's id is its index
    files,                  \* the temporary files on disk, named by the run that made them
    \* ---- YouTubeScheduler_ChatGPT_Version.py
    scheduled_start_time,   \* line 114: the UTC instant sent to the API (minutes)
    local_scheduled_time,   \* line 114: the aware local datetime
    last_broadcast,         \* line 161: the settings record
    upcoming,               \* line 162: the id of the upcoming broadcast found, or None
    title,                  \* line 166
    video_id,               \* lines 169, 210
    tmp_file_path,          \* line 140
    media_open,             \* line 147: a MediaFileUpload holds the file open
    pc,                     \* position of the run
    exit_status,            \* NotYet while the run is going, then 0 or 1
    run,                    \* number of the current run
    \* ---- history
    calls,                  \* the requests this run has issued, in order
    start_size,             \* Len(store) when this run began
    start_upcoming,         \* ids of the upcoming broadcasts when this run began
    init_upcoming,          \* number of upcoming broadcasts in the initial store
    clean,                  \* no upcoming lookup failed or came back short, no insert failed
    stem,                   \* the stem the first last-title was composed from
    \* ---- schedule_livestream.py
    stream_file,            \* content of reusable_stream_id.txt, or None when absent
    streams,                \* ids of the streams the service has created
    s_store,                \* broadcasts of the standalone script: id -> bound stream
    s_stream_id,            \* line 80
    s_broadcast_id,         \* line 103
    s_pc,                   \* position of the standalone run
    s_run,                  \* number of the current standalone run
    s_calls,                \* the requests this standalone run has issued
    s_file_at_start         \* stream_file when this standalone run began

envvars  == <<now, store, files>>
progvars == <<scheduled_start_time, local_scheduled_time, last_broadcast, upcoming,
              title, video_id, tmp_file_path, media_open, pc, exit_status, run>>
histvars == <<calls, start_size, start_upcoming, init_upcoming, clean, stem>>
savars   == <<stream_file, streams, s_store, s_stream_id, s_broadcast_id, s_pc,
              s_run, s_calls, s_file_at_start>>
vars     == <<envvars, progvars, histvars, savars>>

None == "None"
\* Python's None where the value is otherwise a broadcast id.
NoId == 0
\* A number the script has not computed yet (an exit status, an instant).
NotYet == -1

(***************************************************************************)
(* Bounds of the model.                                                    *)
(***************************************************************************)
\* Days of wall clock the schedule calculator is explored over (2025-01-02 on).
MaxDay == 320
\* Longest stem of a title.
MaxStemLen == 3
\* Runs of the standalone script, one after the other.
MaxStandaloneRuns == 3
\* Runs of the primary scheduler, one after the other.
MaxRuns == 2
\* Broadcasts of the initial store, besides a page of old ones.
MaxInitStore == 2

(***************************************************************************)
(* Calendar and zone "America/Chicago" (pytz), year 2025.                  *)
(***************************************************************************)
MinutesPerDay == 24 * 60

\* datetime.weekday(): Monday = 0 .. Sunday = 6; day 0 is Wednesday 2025-01-01.
Weekday(day) == (day + 2) % 7

\* 2025-03-09 02:00 CST = 08:00 UTC: daylight time begins.
DstStartUtc == 67 * MinutesPerDay + 8 * 60
\* 2025-11-02 02:00 CDT = 07:00 UTC: daylight time ends.
DstEndUtc == 305 * MinutesPerDay + 7 * 60

\* The zone's offset from UTC, in minutes, in force at a UTC instant.
UtcOffset(utc) == IF DstStartUtc <= utc /\ utc < DstEndUtc THEN -(5 * 60) ELSE -(6 * 60)

\* datetime.datetime.now(tz): the aware local datetime of an instant. Its
\* tzinfo is the fixed-offset instance pytz attaches for that instant.
LocalNow(t) ==
    LET off == UtcOffset(t.utc)
        loc == t.utc + off
    IN  [day |-> loc \div MinutesPerDay, minute |-> loc % MinutesPerDay,
         second |-> t.second, offset |-> off]

\* days_ahead = 6 - weekday, plus 7 when that is <= 0.
DaysAheadOffByOne(weekday) ==
    LET d == 6 - weekday IN IF d < 0 THEN d + 7 ELSE d

DaysAhead(weekday) ==
    LET d == 6 - weekday IN IF d <= 0 THEN d + 7 ELSE d

\* aware + timedelta(days): wall-clock arithmetic, the tzinfo is kept as it is.
AddDays(dt, n) == [dt EXCEPT !.day = dt.day + n]

\* .replace(hour=9, minute=20, second=0, microsecond=0): the tzinfo is kept.
ReplaceTime(dt) == [dt EXCEPT !.minute = 9 * 60 + 20, !.second = 0]

\* .astimezone(pytz.utc): the instant the aware datetime denotes, by its own
\* tzinfo. (isoformat() renders this instant; the model keeps the instant.)
AsUtc(dt) == dt.day * MinutesPerDay + dt.minute - dt.offset

\* get_next_sunday_920am_cst(): <<scheduled_time_utc, scheduled_time_local>>.
get_next_sunday_920am_cst(t) ==
    LET n     == LocalNow(t)
        local == ReplaceTime(AddDays(n, DaysAhead(Weekday(n.day))))
    IN  <<AsUtc(local), local>>

(***************************************************************************)
(* Strings and the title.                                                  *)
(***************************************************************************)
DigitChars == <<"0", "1", "2", "3", "4", "5", "6", "7", "8", "9">>
Digit(n) == DigitChars[n + 1]
Pad2(n) == <<Digit(n \div 10), Digit(n % 10)>>
Pad4(n) == <<Digit(n \div 1000), Digit((n \div 100) % 10)>> \o Pad2(n % 100)

\* Month lengths of the (non-leap) years 2025..2027.
MonthLengths == <<31, 28, 31, 30, 31, 30, 31, 31, 30, 31, 30, 31>>

RECURSIVE MonthOf(_, _)
\* <<month, day of month>> of the 0-based day of year doy, from month m on.
MonthOf(doy, m) ==
    IF doy < MonthLengths[m] THEN <<m, doy + 1>>
    ELSE MonthOf(doy - MonthLengths[m], m + 1)

\* strftime('%Y %m %d') of a local datetime.
Strftime(dt) ==
    LET md == MonthOf(dt.day % 365, 1)
    IN  Pad4(2025 + dt.day \div 365) \o <<" ">> \o Pad2(md[1]) \o <<" ">> \o Pad2(md[2])

RECURSIVE Split(_)
\* str.split('-'): the list of the parts between the "-" characters.
Split(s) ==
    IF s = <<>> THEN << <<>> >>
    ELSE LET rest == Split(Tail(s))
         IN  IF Head(s) = "-" THEN << <<>> >> \o rest
             ELSE << <<Head(s)>> \o rest[1] >> \o Tail(rest)

RECURSIVE LStrip(_)
LStrip(s) == IF s # <<>> /\ Head(s) = " " THEN LStrip(Tail(s)) ELSE s

RECURSIVE RStrip(_)
RStrip(s) ==
    IF s # <<>> /\ s[Len(s)] = " " THEN RStrip(SubSeq(s, 1, Len(s) - 1)) ELSE s

\* str.strip()
Strip(s) == RStrip(LStrip(s))

\* lines 165-166: base_title and title.
BuildTitle(last_title, local) ==
    Strip(Split(last_title)[1]) \o <<" ", "-", " ">> \o Strftime(local)

(***************************************************************************)
(* The YouTube service, as the scheduler sees it.                          *)
(***************************************************************************)
\* What a call to the service (or to the thumbnail host) can do: return,
\* raise googleapiclient.errors.HttpError, or raise any other exception.
Outcomes == {"ok", "HttpError", "Exception"}

\* maxResults of both liveBroadcasts.list calls.
MaxResults == 10

Ids(st) == 1..Len(st)

\* snippet.publishedAt: ids are handed out in order of publication.
PublishedAt(id) == id

RECURSIVE KSubsets(_, _)
KSubsets(S, k) ==
    IF k = 0 THEN {{}}
    ELSE IF S = {} THEN {}
    ELSE LET x == CHOOSE y \in S : TRUE
         IN  {T \cup {x} : T \in KSubsets(S \ {x}, k - 1)} \cup KSubsets(S \ {x}, k)

\* liveBroadcasts.list(mine=True, maxResults=10): the sets of ids one page can
\* hold. Which broadcasts the service returns when it has more is its choice.
Responses(st) ==
    IF Len(st) <= MaxResults THEN {Ids(st)}
    ELSE {Ids(st) \ D : D \in KSubsets(Ids(st), Len(st) - MaxResults)}

DefaultTitle ==
    <<"B", "e", "t", "h", "e", "l", " ", "L", "i", "v", "e", "s", "t", "r", "e", "a", "m">>

DefaultDetails ==
    [description |-> "Join us live this Sunday at 9:20 AM CST!", privacy |-> "public",
     auto_start |-> TRUE, auto_stop |-> TRUE]

\* lines 54-62 and 92-100: the settings used when there is nothing to reuse.
DefaultSettings ==
    [title |-> DefaultTitle, details |-> DefaultDetails, thumbnail |-> None,
     streamId |-> None]

\* lines 72-78: the url of the best thumbnail present (a url is named by its
\* resolution), None when there is none.
ThumbnailUrl(thumbs) ==
    IF "maxres" \in thumbs THEN "maxres"
    ELSE IF "high" \in thumbs THEN "high"
    ELSE IF "medium" \in thumbs THEN "medium"
    ELSE IF "default" \in thumbs THEN "default"
    ELSE None

\* lines 65-70: the most recently published broadcast of a response.
LastOf(resp) == CHOOSE b \in resp : \A c \in resp : PublishedAt(c) <= PublishedAt(b)

\* lines 80-88: the settings copied from a broadcast.
SettingsOf(b) ==
    [title |-> b.title, details |-> b.details, thumbnail |-> ThumbnailUrl(b.thumbs),
     streamId |-> b.stream]

\* line 127: the filter of get_upcoming_broadcast.
IsUpcomingAny(b) == TRUE

IsUpcoming(b) == b.status = "upcoming"

UpcomingIn(st, resp) == {b \in resp : IsUpcoming(st[b])}

\* line 130: sorted(...)[0]: the upcoming broadcasts of the response with the
\* earliest scheduledStartTime (the sort is stable: among equal times the
\* response's order, which the service chooses, decides).
Earliest(st, ups) == {b \in ups : \A c \in ups : st[b].sched <= st[c].sched}

RequestBodyWithoutId(id) ==
    [id |-> NoId, title |-> title, details |-> last_broadcast.details,
     sched |-> scheduled_start_time]

\* The body of an update or insert request (lines 171-183, 193-204).
RequestBody(id) ==
    [id |-> id, title |-> title, details |-> last_broadcast.details,
     sched |-> scheduled_start_time]

\* A broadcast the service creates from an insert request.
Created(body) ==
    [status |-> "upcoming", sched |-> body.sched, title |-> body.title,
     details |-> body.details, thumbs |-> {}, stream |-> None]

\* A broadcast after the service applied an update request.
Updated(b, body) ==
    [b EXCEPT !.sched = body.sched, !.title = body.title, !.details = body.details]

\* A request, as the history keeps it: what was asked and how it ended.
Call(op, id, stream, result) == [op |-> op, id |-> id, stream |-> stream, result |-> result]

CallsOf(op) == {i \in 1..Len(calls) : calls[i].op = op}

(***************************************************************************)
(* Initial states of the primary scheduler: the process has loaded its     *)
(* environment and built the client (lines 1-40).                          *)
(***************************************************************************)
Dated(s, day) == s \o <<" ", "-", " ">> \o Strftime([day |-> day])

\* 09:20 in the zone on the Sunday k weeks after 2025-01-05, as a UTC instant.
SundayUtc(k) ==
    LET wall == (4 + 7 * k) * MinutesPerDay + 9 * 60 + 20
    IN  CHOOSE u \in {wall + 5 * 60, wall + 6 * 60} : u + UtcOffset(u) = wall

OtherDetails ==
    [description |-> "Sunday service", privacy |-> "unlisted",
     auto_start |-> FALSE, auto_stop |-> TRUE]

\* The broadcasts an initial store is made of.
InitKinds ==
    { [status |-> "complete", sched |-> SundayUtc(0), title |-> Dated(<<"a">>, 4),
       details |-> OtherDetails, thumbs |-> {"high", "default"}, stream |-> "s1"],
      [status |-> "upcoming", sched |-> SundayUtc(40), title |-> Dated(<<"a">>, 284),
       details |-> OtherDetails, thumbs |-> {"default"}, stream |-> "s1"],
      [status |-> "upcoming", sched |-> SundayUtc(41), title |-> <<"b", "-", "c">>,
       details |-> DefaultDetails, thumbs |-> {}, stream |-> None] }

SeqsUpTo(S, n) == UNION {[1..k -> S] : k \in 0..n}

\* A page of old, completed broadcasts.
OldPage(n) ==
    [i \in 1..n |->
        [status |-> "complete", sched |-> SundayUtc(0), title |-> <<"a">>,
         details |-> DefaultDetails, thumbs |-> {}, stream |-> None]]

\* Stores of up to MaxInitStore broadcasts, alone or after so many old ones
\* that one page still holds them all.
InitStores ==
    {OldPage(n) \o q : n \in {0, MaxResults - MaxInitStore},
                       q \in SeqsUpTo(InitKinds, MaxInitStore)}

\* Wednesday 2025-03-05 12:00:30 CST, the week daylight time begins.
PipelineNows == { [utc |-> 63 * MinutesPerDay + 18 * 60, second |-> 30] }

UpcomingIds(st) == {b \in Ids(st) : st[b].status = "upcoming"}

TmpNames == <<"tmp1", "tmp2", "tmp3", "tmp4">>

\* reusable_stream_id.txt when it does not exist.
NoFile == [exists |-> FALSE, text |-> <<>>]

\* The standalone script before its first run: no file, no stream.
StandaloneFresh ==
    /\ stream_file = NoFile
    /\ streams = {}
    /\ s_store = <<>>
    /\ s_stream_id = <<>>
    /\ s_broadcast_id = NoId
    /\ s_run = 1
    /\ s_calls = <<>>
    /\ s_file_at_start = NoFile

\* Nothing is computed yet.
NoLocalTime == [day |-> NotYet, minute |-> NotYet, second |-> NotYet, offset |-> NotYet]

NoSettings ==
    [title |-> <<>>,
     details |-> [description |-> "", privacy |-> "", auto_start |-> FALSE, auto_stop |-> FALSE],
     thumbnail |-> None, streamId |-> None]

NothingComputed ==
    /\ scheduled_start_time = NotYet
    /\ local_scheduled_time = NoLocalTime
    /\ last_broadcast = NoSettings
    /\ stem = <<>>

SchedulerStart ==
    /\ upcoming = NoId
    /\ title = <<>>
    /\ video_id = NoId
    /\ tmp_file_path = None
    /\ media_open = FALSE
    /\ exit_status = NotYet
    /\ run = 1
    /\ calls = <<>>
    /\ clean = TRUE
    /\ files = {}

Init ==
    /\ now \in PipelineNows
    /\ store \in InitStores
    /\ NothingComputed
    /\ SchedulerStart
    /\ pc = "schedule"
    /\ start_size = Len(store)
    /\ start_upcoming = UpcomingIds(store)
    /\ init_upcoming = Cardinality(UpcomingIds(store))
    /\ StandaloneFresh
    /\ s_pc = "idle"

(***************************************************************************)
(* The primary scheduler, one action per step of the script.               *)
(***************************************************************************)
\* line 114
ComputeSchedule ==
    /\ pc = "schedule"
    /\ LET r == get_next_sunday_920am_cst(now)
       IN  /\ scheduled_start_time' = r[1]
           /\ local_scheduled_time' = r[2]
    /\ pc' = "get_last"
    /\ UNCHANGED <<envvars, last_broadcast, upcoming, title, video_id, tmp_file_path,
                   media_open, exit_status, run, histvars, savars>>

\* lines 43-100, called at line 161
get_last_broadcast ==
    /\ pc = "get_last"
    /\ \E o \in Outcomes :
          /\ \/ /\ o = "ok"
                /\ \E resp \in Responses(store) :
                      last_broadcast' = IF resp = {} THEN DefaultSettings
                                        ELSE SettingsOf(store[LastOf(resp)])
             \/ /\ o # "ok"
                /\ last_broadcast' = DefaultSettings
          /\ calls' = Append(calls, Call("list", NoId, None, o))
    /\ pc' = "get_upcoming"
    /\ UNCHANGED <<envvars, scheduled_start_time, local_scheduled_time, upcoming, title,
                   video_id, tmp_file_path, media_open, exit_status, run, start_size,
                   start_upcoming, init_upcoming, clean, stem, savars>>

\* lines 117-134, called at line 162
get_upcoming_broadcast ==
    /\ pc = "get_upcoming"
    /\ \E o \in Outcomes :
          /\ \/ /\ o = "ok"
                /\ \E resp \in Responses(store) :
                      LET ups == UpcomingIn(store, resp)
                      IN  /\ \/ /\ ups = {}
                                /\ upcoming' = NoId
                             \/ \E b \in Earliest(store, ups) : upcoming' = b
                          /\ clean' = (clean /\ ups = UpcomingIds(store))
             \/ /\ o # "ok"
                /\ upcoming' = NoId
                /\ clean' = FALSE
          /\ calls' = Append(calls, Call("list", NoId, None, o))
    /\ pc' = "title"
    /\ UNCHANGED <<envvars, scheduled_start_time, local_scheduled_time, last_broadcast,
                   title, video_id, tmp_file_path, media_open, exit_status, run,
                   start_size, start_upcoming, init_upcoming, stem, savars>>

\* lines 165-166
MakeTitle ==
    /\ pc = "title"
    /\ title' = BuildTitle(last_broadcast.title, local_scheduled_time)
    /\ pc' = "reconcile"
    /\ UNCHANGED <<envvars, scheduled_start_time, local_scheduled_time, last_broadcast,
                   upcoming, video_id, tmp_file_path, media_open, exit_status, run,
                   histvars, savars>>

\* line 168: `if upcoming:`
AlwaysInsert(up) == FALSE

TakesUpdatePath(up) == up # NoId

\* An uncaught exception ends the process with a traceback and status 1.
Crash ==
    /\ pc' = "crashed"
    /\ exit_status' = 1

\* lines 168-191
UpdateBroadcast ==
    /\ pc = "reconcile"
    /\ TakesUpdatePath(upcoming)
    /\ video_id' = upcoming
    /\ \E o \in Outcomes :
          /\ calls' = Append(calls, Call("update", RequestBody(upcoming).id, None, o))
          /\ \/ /\ o = "ok"
                /\ store' = [store EXCEPT ![upcoming] = Updated(@, RequestBody(upcoming))]
                /\ pc' = "bind"
                /\ UNCHANGED exit_status
             \/ /\ o = "HttpError"
                /\ pc' = "bind"
                /\ UNCHANGED <<store, exit_status>>
             \/ /\ o = "Exception"
                /\ Crash
                /\ UNCHANGED store
    /\ UNCHANGED <<now, files, scheduled_start_time, local_scheduled_time, last_broadcast,
                   upcoming, title, tmp_file_path, media_open, run, start_size,
                   start_upcoming, init_upcoming, clean, stem, savars>>

\* lines 192-217
InsertBroadcast ==
    /\ pc = "reconcile"
    /\ ~TakesUpdatePath(upcoming)
    /\ \E o \in Outcomes :
          /\ calls' = Append(calls, Call("insert", NoId, None, o))
          /\ \/ /\ o = "ok"
                /\ store' = Append(store, Created(RequestBody(NoId)))
                /\ video_id' = Len(store) + 1
                /\ pc' = "bind"
                /\ UNCHANGED <<exit_status, clean>>
             \/ /\ o = "HttpError"
                /\ pc' = "exited"
                /\ exit_status' = 1
                /\ clean' = FALSE
                /\ UNCHANGED <<store, video_id>>
             \/ /\ o = "Exception"
                /\ Crash
                /\ clean' = FALSE
                /\ UNCHANGED <<store, video_id>>
    /\ UNCHANGED <<now, files, scheduled_start_time, local_scheduled_time, last_broadcast,
                   upcoming, title, tmp_file_path, media_open, run, start_size,
                   start_upcoming, init_upcoming, stem, savars>>

\* lines 220-230
BindStream ==
    /\ pc = "bind"
    /\ \/ /\ last_broadcast.streamId = None
          /\ pc' = "thumbnail"
          /\ UNCHANGED <<store, calls, exit_status>>
       \/ /\ last_broadcast.streamId # None
          /\ \E o \in Outcomes :
                /\ calls' = Append(calls, Call("bind", video_id, last_broadcast.streamId, o))
                /\ \/ /\ o = "ok"
                      /\ store' = [store EXCEPT ![video_id].stream = last_broadcast.streamId]
                      /\ pc' = "thumbnail"
                      /\ UNCHANGED exit_status
                   \/ /\ o = "HttpError"
                      /\ pc' = "thumbnail"
                      /\ UNCHANGED <<store, exit_status>>
                   \/ /\ o = "Exception"
                      /\ Crash
                      /\ UNCHANGED store
    /\ UNCHANGED <<now, files, scheduled_start_time, local_scheduled_time, last_broadcast,
                   upcoming, title, video_id, tmp_file_path, media_open, run, start_size,
                   start_upcoming, init_upcoming, clean, stem, savars>>

\* The script's end (line 235): status 0.
Finish ==
    /\ pc' = "done"
    /\ exit_status' = 0

\* set_thumbnail, lines 138-143: the early return and the fetch.
SetThumbnailFetch ==
    /\ pc = "thumbnail"
    /\ \/ /\ last_broadcast.thumbnail = None
          /\ Finish
       \/ /\ last_broadcast.thumbnail # None
          /\ \E o \in Outcomes :
                \/ /\ o = "ok"
                   /\ pc' = "tmpfile"
                \/ /\ o # "ok"
                   /\ pc' = "finally"
          /\ UNCHANGED exit_status
    /\ UNCHANGED <<envvars, scheduled_start_time, local_scheduled_time, last_broadcast,
                   upcoming, title, video_id, tmp_file_path, media_open, run, histvars,
                   savars>>

\* set_thumbnail, lines 144-146: the temporary file is created (delete=False),
\* named, written and closed; creating it or writing to it can fail.
SetThumbnailWrite ==
    /\ pc = "tmpfile"
    /\ \/ /\ pc' = "finally"
          /\ UNCHANGED <<files, tmp_file_path>>
       \/ /\ files' = files \cup {TmpNames[run]}
          /\ tmp_file_path' = TmpNames[run]
          /\ \E written \in BOOLEAN : pc' = IF written THEN "upload" ELSE "finally"
    /\ UNCHANGED <<now, store, scheduled_start_time, local_scheduled_time, last_broadcast,
                   upcoming, title, video_id, media_open, exit_status, run, histvars,
                   savars>>

\* set_thumbnail, lines 147-150: MediaFileUpload opens the file; `del media`
\* (which closes it) is reached only when thumbnails().set() returned.
SetThumbnailUpload ==
    /\ pc = "upload"
    /\ \E o \in Outcomes :
          /\ calls' = Append(calls, Call("thumbnail", video_id, None, o))
          /\ \/ /\ o = "ok"
                /\ store' = [store EXCEPT ![video_id].thumbs = {"default", "medium", "high"}]
                /\ media_open' = FALSE
             \/ /\ o # "ok"
                /\ media_open' = TRUE
                /\ UNCHANGED store
    /\ pc' = "finally"
    /\ UNCHANGED <<now, files, scheduled_start_time, local_scheduled_time, last_broadcast,
                   upcoming, title, video_id, tmp_file_path, exit_status, run, start_size,
                   start_upcoming, init_upcoming, clean, stem, savars>>

\* os.remove of a file some object still holds open: it succeeds on POSIX and
\* raises PermissionError on Windows. A closed file is always removed.
RemoveOutcomes(held) == IF held THEN {TRUE, FALSE} ELSE {TRUE}

\* set_thumbnail, lines 151-158: the exception is swallowed, the file is
\* removed when it is there (a failing os.remove is swallowed too), the call
\* returns and the script ends.
SetThumbnailFinally ==
    /\ pc = "finally"
    /\ \/ /\ tmp_file_path = None \/ tmp_file_path \notin files
          /\ UNCHANGED files
       \/ /\ tmp_file_path # None
          /\ tmp_file_path \in files
          /\ \E removed \in RemoveOutcomes(media_open) :
                files' = IF removed THEN files \ {tmp_file_path} ELSE files
    /\ media_open' = FALSE
    /\ Finish
    /\ UNCHANGED <<now, store, scheduled_start_time, local_scheduled_time, last_broadcast,
                   upcoming, title, video_id, tmp_file_path, run, histvars, savars>>

Terminal == {"done", "exited", "crashed"}

\* The script is started again a week later.
NextRun ==
    /\ pc \in Terminal
    /\ run < MaxRuns
    /\ run' = run + 1
    /\ now' = [now EXCEPT !.utc = @ + 7 * MinutesPerDay]
    /\ pc' = "schedule"
    /\ scheduled_start_time' = NotYet
    /\ local_scheduled_time' = NoLocalTime
    /\ last_broadcast' = NoSettings
    /\ upcoming' = NoId
    /\ title' = <<>>
    /\ video_id' = NoId
    /\ tmp_file_path' = None
    /\ media_open' = FALSE
    /\ exit_status' = NotYet
    /\ calls' = <<>>
    /\ start_size' = Len(store)
    /\ start_upcoming' = UpcomingIds(store)
    /\ UNCHANGED <<store, files, init_upcoming, clean, stem, savars>>

Next ==
    \/ ComputeSchedule
    \/ get_last_broadcast
    \/ get_upcoming_broadcast
    \/ MakeTitle
    \/ UpdateBroadcast
    \/ InsertBroadcast
    \/ BindStream
    \/ SetThumbnailFetch
    \/ SetThumbnailWrite
    \/ SetThumbnailUpload
    \/ SetThumbnailFinally
    \/ NextRun

Spec == Init /\ [][Next]_vars

(***************************************************************************)
(* Properties of the primary scheduler.                                    *)
(***************************************************************************)
\* Positions after the update-or-insert decision was carried out.
AfterReconcile == {"bind", "thumbnail", "tmpfile", "upload", "finally"} \cup Terminal

Failed(op) == {i \in CallsOf(op) : calls[i].result # "ok"}

\* C1: in a run whose get_upcoming_broadcast found an upcoming broadcast, one
\* update is issued, its body carries the id of that broadcast (which is an
\* upcoming broadcast of the store), no insert is issued, and the store holds
\* as many broadcasts as when the run began.
C1_UpdatePathKeepsStore ==
    (pc \in AfterReconcile /\ upcoming # NoId) =>
        /\ upcoming \in start_upcoming
        /\ Cardinality(CallsOf("update")) = 1
        /\ \A i \in CallsOf("update") : calls[i].id = upcoming
        /\ CallsOf("insert") = {}
        /\ Len(store) = start_size

\* A run that found the earlier of two upcoming broadcasts, updated it and
\* reached its end.
C1_Witness ==
    /\ pc = "done"
    /\ upcoming # NoId
    /\ Cardinality(start_upcoming) = 2
    /\ \E i \in CallsOf("update") : calls[i].result = "ok"

\* C2 as stated: in a run that began with no upcoming broadcast in the store,
\* exactly one insert and no update is issued and the store ends up holding
\* exactly one more broadcast.
C2_InsertAddsOne ==
    (pc \in Terminal /\ start_upcoming = {}) =>
        /\ Cardinality(CallsOf("insert")) = 1
        /\ CallsOf("update") = {}
        /\ Len(store) = start_size + 1

\* C2 amended: in a run that began with no upcoming broadcast in the store,
\* exactly one insert and no update is issued; the store holds exactly one
\* more broadcast when that insert succeeded, and when it failed the store is
\* as it was and the run ended with status 1.
C2_InsertAddsOneIfItSucceeds ==
    (pc \in AfterReconcile /\ start_upcoming = {}) =>
        /\ Cardinality(CallsOf("insert")) = 1
        /\ CallsOf("update") = {}
        /\ Failed("insert") = {} => Len(store) = start_size + 1
        /\ Failed("insert") # {} => (Len(store) = start_size /\ exit_status = 1)

\* A run that began with broadcasts, none of them upcoming, inserted one and
\* reached its end.
C2_Witness ==
    /\ pc = "done"
    /\ start_upcoming = {}
    /\ start_size > 0
    /\ Failed("insert") = {}
    /\ Len(store) = start_size + 1

C5_NonZeroExitOnlyOnInsertFailure ==
    pc \in Terminal =>
        /\ (exit_status # 0) <=> (Failed("insert") # {})
        /\ Failed("insert") # {} => (CallsOf("bind") = {} /\ CallsOf("thumbnail") = {})

\* C6: a run whose update failed still reaches its end with status 0, having
\* bound the stream (when the settings carry one) and addressed the thumbnail
\* to the upcoming broadcast's id.
C6_UpdateFailureNotFatal ==
    (pc \in Terminal /\ Failed("update") # {}) =>
        /\ pc = "done"
        /\ exit_status = 0
        /\ last_broadcast.streamId # None =>
              \E i \in CallsOf("bind") : calls[i].id = upcoming
        /\ \A i \in CallsOf("bind") \cup CallsOf("thumbnail") : calls[i].id = upcoming

\* C7: when set_thumbnail has returned, the temporary file this run made is
\* not on disk.
C7_NoResidualTempFile ==
    pc = "done" => TmpNames[run] \notin files

(***************************************************************************)
(* The schedule calculator over a year of wall clock.                      *)
(***************************************************************************)
\* Every hour from 2025-01-02 on, at minutes 19 and 20 (09:19 and 09:20 local
\* among them), at the first and the last second of the minute.
ScheduleNows ==
    {[utc |-> 60 * h + m, second |-> sec] :
        h \in 24..(24 * MaxDay), m \in {19, 20}, sec \in {0, 59}}

InitSchedule ==
    /\ now \in ScheduleNows
    /\ store = <<>>
    /\ NothingComputed
    /\ SchedulerStart
    /\ pc = "schedule"
    /\ start_size = 0
    /\ start_upcoming = {}
    /\ init_upcoming = 0
    /\ StandaloneFresh
    /\ s_pc = "idle"

SpecSchedule == InitSchedule /\ [][ComputeSchedule]_vars

\* C4: the local datetime get_next_sunday_920am_cst returns is a Sunday at
\* 09:20:00, d calendar days after the current local date, where d = 7 on a
\* Sunday and 6 - weekday (1..6) otherwise; it is not the current day and the
\* instant it denotes is after now.
C4_NextSundayLocal ==
    pc # "schedule" =>
        LET n == LocalNow(now)
            l == local_scheduled_time
            d == l.day - n.day
        IN  /\ Weekday(l.day) = 6
            /\ l.minute = 9 * 60 + 20
            /\ l.second = 0
            /\ d = IF Weekday(n.day) = 6 THEN 7 ELSE 6 - Weekday(n.day)
            /\ d \in 1..7
            /\ l.day # n.day
            /\ scheduled_start_time > now.utc

\* The schedule computed on a Sunday before 09:20.
C4_Witness ==
    /\ pc # "schedule"
    /\ Weekday(LocalNow(now).day) = 6
    /\ LocalNow(now).minute < 9 * 60 + 20
    /\ local_scheduled_time.day = LocalNow(now).day + 7

\* C10: the UTC instant sent as scheduledStartTime is 09:20 wall clock in the
\* zone on the target Sunday, by the zone's offset in force on that Sunday.
C10_UtcIsZoneWallClock ==
    pc # "schedule" =>
        LET back == LocalNow([utc |-> scheduled_start_time, second |-> 0])
        IN  /\ back.day = local_scheduled_time.day
            /\ back.minute = 9 * 60 + 20

(***************************************************************************)
(* The title over stems and dates.                                         *)
(***************************************************************************)
Letters == {"a", "b"}

Alphabet == Letters \cup {" ", "-"}

\* The stems: strings that begin and end with a letter.
Stems ==
    {s \in SeqsUpTo(Alphabet, MaxStemLen) :
        s # <<>> /\ s[1] \in Letters /\ s[Len(s)] \in Letters}

\* Sundays 2025-01-05, 2025-03-02 and 2025-12-21.
TitleDays == {4, 60, 354}

\* 2025-01-06, 2025-03-05 and 2025-12-29, at noon local time.
TitleNows == {[utc |-> d * MinutesPerDay + 18 * 60, second |-> 0] : d \in {5, 63, 362}}

\* The script has run up to line 162 and its last broadcast's title is a stem
\* with a date.
InitTitle ==
    /\ now \in TitleNows
    /\ store = <<>>
    /\ SchedulerStart
    /\ stem \in Stems
    /\ \E d1 \in TitleDays :
          last_broadcast = [DefaultSettings EXCEPT !.title = Dated(stem, d1)]
    /\ scheduled_start_time = get_next_sunday_920am_cst(now)[1]
    /\ local_scheduled_time = get_next_sunday_920am_cst(now)[2]
    /\ pc = "title"
    /\ start_size = 0
    /\ start_upcoming = {}
    /\ init_upcoming = 0
    /\ StandaloneFresh
    /\ s_pc = "idle"


\* A later run whose last broadcast is the one this run wrote: the title comes
\* back as the last title, a week later (lines 161-166 of the next run).
TitleReused ==
    /\ pc = "reconcile"
    /\ run < MaxRuns
    /\ run' = run + 1
    /\ now' = [now EXCEPT !.utc = @ + 7 * MinutesPerDay]
    /\ scheduled_start_time' = get_next_sunday_920am_cst(now')[1]
    /\ local_scheduled_time' = get_next_sunday_920am_cst(now')[2]
    /\ last_broadcast' = [last_broadcast EXCEPT !.title = title]
    /\ pc' = "title"
    /\ UNCHANGED <<store, files, upcoming, title, video_id, tmp_file_path, media_open,
                   exit_status, histvars, savars>>

NextTitle == MakeTitle \/ TitleReused

SpecTitle == InitTitle /\ [][NextTitle]_vars

\* C8: the title built from the last title "S - <date>" is "S - <new date>",
\* for every stem S (taken to begin and end with a letter), also when the
\* title written by one run comes back as the last title of the next.
C8_TitleReplacesDate ==
    pc = "reconcile" => title = Dated(stem, local_scheduled_time.day)

(***************************************************************************)
(* schedule_livestream.py                                                  *)
(***************************************************************************)
\* The ids the service gives to the streams it creates.
StreamIdPool == {<<"s", "1">>, <<"s", "2">>, <<"s", "3">>}

\* SCHEDULED_TIME_OFFSET_MINUTES
SCHEDULED_TIME_OFFSET_MINUTES == 30

InitStandalone ==
    /\ now \in PipelineNows
    /\ store = <<>>
    /\ NothingComputed
    /\ SchedulerStart
    /\ pc = "schedule"
    /\ start_size = 0
    /\ start_upcoming = {}
    /\ init_upcoming = 0
    /\ StandaloneFresh
    /\ s_pc = "find"

SCallsOf(op) == {i \in 1..Len(s_calls) : s_calls[i].op = op}

\* lines 69-70: the id is written to reusable_stream_id.txt.
PersistNothing(id) == NoFile

Persist(id) == [exists |-> TRUE, text |-> id]

\* No handler: an exception ends the run with a traceback.
SCrash == s_pc' = "crashed"

\* lines 36-73, called at line 80
find_or_create_reusable_stream ==
    /\ s_pc = "find"
    /\ \/ /\ stream_file.exists
          /\ s_stream_id' = Strip(stream_file.text)
          /\ s_pc' = "insert"
          /\ UNCHANGED <<stream_file, streams, s_calls>>
       \/ /\ ~stream_file.exists
          /\ \E o \in Outcomes :
                \/ /\ o = "ok"
                   /\ \E id \in StreamIdPool \ streams :
                         /\ streams' = streams \cup {id}
                         /\ stream_file' = Persist(id)
                         /\ s_stream_id' = id
                         /\ s_calls' = Append(s_calls, Call("liveStreams.insert", NoId, id, o))
                   /\ s_pc' = "insert"
                \/ /\ o # "ok"
                   /\ s_calls' = Append(s_calls, Call("liveStreams.insert", NoId, <<>>, o))
                   /\ SCrash
                   /\ UNCHANGED <<stream_file, streams, s_stream_id>>
    /\ UNCHANGED <<envvars, progvars, histvars, s_store, s_broadcast_id, s_run,
                   s_file_at_start>>

\* lines 83-104
InsertStandaloneBroadcast ==
    /\ s_pc = "insert"
    /\ \E o \in Outcomes :
          /\ s_calls' = Append(s_calls, Call("liveBroadcasts.insert", NoId, <<>>, o))
          /\ \/ /\ o = "ok"
                /\ s_store' = Append(s_store,
                                [sched |-> now.utc + SCHEDULED_TIME_OFFSET_MINUTES,
                                 stream |-> <<>>])
                /\ s_broadcast_id' = Len(s_store) + 1
                /\ s_pc' = "bind"
             \/ /\ o # "ok"
                /\ SCrash
                /\ UNCHANGED <<s_store, s_broadcast_id>>
    /\ UNCHANGED <<envvars, progvars, histvars, stream_file, streams, s_stream_id, s_run,
                   s_file_at_start>>

\* lines 107-119
BindStandaloneBroadcast ==
    /\ s_pc = "bind"
    /\ \E o \in Outcomes :
          /\ s_calls' = Append(s_calls, Call("liveBroadcasts.bind", s_broadcast_id, s_stream_id, o))
          /\ \/ /\ o = "ok"
                /\ s_store' = [s_store EXCEPT ![s_broadcast_id].stream = s_stream_id]
                /\ s_pc' = "done"
             \/ /\ o # "ok"
                /\ SCrash
                /\ UNCHANGED s_store
    /\ UNCHANGED <<envvars, progvars, histvars, stream_file, streams, s_stream_id,
                   s_broadcast_id, s_run, s_file_at_start>>

\* The script is started again a day later.
NextStandaloneRun ==
    /\ s_pc \in {"done", "crashed"}
    /\ s_run < MaxStandaloneRuns
    /\ s_run' = s_run + 1
    /\ now' = [now EXCEPT !.utc = @ + MinutesPerDay]
    /\ s_pc' = "find"
    /\ s_stream_id' = <<>>
    /\ s_broadcast_id' = NoId
    /\ s_calls' = <<>>
    /\ s_file_at_start' = stream_file
    /\ UNCHANGED <<store, files, progvars, histvars, stream_file, streams, s_store>>

NextStandalone ==
    \/ find_or_create_reusable_stream
    \/ InsertStandaloneBroadcast
    \/ BindStandaloneBroadcast
    \/ NextStandaloneRun

SpecStandalone == InitStandalone /\ [][NextStandalone]_vars

\* C9: liveStreams.insert is issued only in a run that found no file; a run
\* whose liveStreams.insert returned has persisted the returned id; a run that
\* found the file issues no liveStreams.insert, leaves the file as it is and
\* binds only to the persisted id; and the service has created at most one
\* stream, the persisted one.
C9_StreamCreatedOnceAndReused ==
    /\ SCallsOf("liveStreams.insert") # {} => ~s_file_at_start.exists
    /\ \A i \in SCallsOf("liveStreams.insert") :
          s_calls[i].result = "ok" => stream_file = [exists |-> TRUE, text |-> s_calls[i].stream]
    /\ s_file_at_start.exists =>
          /\ SCallsOf("liveStreams.insert") = {}
          /\ stream_file = s_file_at_start
          /\ \A i \in SCallsOf("liveBroadcasts.bind") : s_calls[i].stream = s_file_at_start.text
    /\ Cardinality(streams) <= 1
    /\ stream_file.exists => streams = {stream_file.text}
    /\ \A b \in 1..Len(s_store) : s_store[b].stream # <<>> => s_store[b].stream \in streams

\* A later run that found the file of an earlier run and bound its broadcast
\* to the persisted id.
C9_Witness ==
    /\ s_run >= 2
    /\ s_pc = "done"
    /\ s_file_at_start.exists
    /\ \E i \in SCallsOf("liveBroadcasts.bind") :
          s_calls[i].result = "ok" /\ s_calls[i].stream = s_file_at_start.text

====
